---------------------------- MODULE Spec2Model ----------------------------
(***************************************************************************)
(* A model of vmax.py: the sequential reader of a VMA archive (header,     *)
(* blob table, extents, block-infos, cluster reconstruction) and the       *)
(* thread pool that writes the reconstructed clusters back to the device   *)
(* files.                                                                  *)
(*                                                                         *)
(* The archive is a sequence of cells.  The layout is the layout of the    *)
(* code, scaled down: every scalar field of the code (4-byte magic, 16-byte*)
(* uuid, ...) is FieldCells wide, every fixed skip is SkipCells wide, a    *)
(* cluster has NBITS sub-blocks of SUB_SIZE cells, an extent has NBI       *)
(* block-infos, the header has NDEV device descriptors and NCFG config     *)
(* slots.  Reads are Python reads: a read at the end of the file returns   *)
(* fewer cells than asked for and raises nothing.                          *)
(***************************************************************************)
EXTENDS Integers, Sequences, FiniteSets, TLC

VARIABLES
    archive,      \* the archive file's content (never changes)
    skip_hash,    \* args.skip_hash
    max_workers,  \* os.cpu_count() or 4
    fo,           \* the archive cursor, fo.tell()
    pc,           \* where extract() is
    error,        \* "" or the kind of the exception that left extract()
    header,       \* the VmaHeader under construction / constructed
    extent,       \* the current VmaExtentHeader
    bi,           \* index of the next block-info of the current extent
    idx,          \* index of the next device descriptor in the output loop
    configs,      \* the names of the config files written
    device_outs,  \* device id -> [pos, data, closed]: the open output files
    locks,        \* device id -> 0 (free) or the worker holding the lock
    cluster_buf,  \* the reader's reusable buffer
    submitted,    \* every task handed to executor.submit, in order
    queue,        \* indices into submitted: the pool's work queue
    wk,           \* worker -> [st, task]
    result,       \* task index -> "" (not finished) or its outcome
    digests       \* number of digests computed

vars == <<archive, skip_hash, max_workers, fo, pc, error, header, extent, bi,
          idx, configs, device_outs, locks, cluster_buf, submitted, queue, wk,
          result, digests>>

-----------------------------------------------------------------------------
(* Program constants, scaled *)

\* cells of a scalar field (4, 16, 8, 2 or 1 bytes in the code)
FieldCells == 1
\* cells of a fixed skip (1984, 4, 16, 2 or 1 bytes in the code)
SkipCells == 1
\* sub-blocks of a cluster, bits of a mask (16 in the code)
NBITS == 3
\* cells of a sub-block (4096 bytes in the code)
SUB_SIZE == 2
\* block-infos of an extent (59 in the code)
NBI == 2
\* device descriptors of the header (256 in the code); device ids 0..NDEV-1
NDEV == 3
\* config slots of the header (256 in the code)
NCFG == 1
\* b'VMA\0'
VMA_MAGIC == 86
\* b'VMAE'
VMAE_MAGIC == 69
VERSION == 1
\* number of digest values (2^128 in the code)
DigestRange == 251

CLUSTER_SIZE == NBITS * SUB_SIZE
FULL_MASK == 2 ^ NBITS - 1

(* Bounds *)

\* an archive is cut short by at most MaxCut cells
MaxCut == 3
\* the largest cluster index of the archives of SpecConc
MaxCluster == 1
\* max_workers of the pool in SpecConc
NWorkers == 2

-----------------------------------------------------------------------------
(* The byte source *)

Min(a, b) == IF a < b THEN a ELSE b
Max(a, b) == IF a < b THEN b ELSE a

Total(a) == Len(a)

\* fo.read(n) at cursor p: the cells [p, p+n) that exist
Read(a, p, n) ==
    IF p >= Total(a) THEN << >> ELSE SubSeq(a, p + 1, Min(p + n, Total(a)))

\* the cursor after fo.read(n) at p
AfterRead(a, p, n) == p + Len(Read(a, p, n))

\* int.from_bytes of a field of FieldCells cells (b'' is 0)
FromBytes(b) == IF b = << >> THEN 0 ELSE b[1]

Zeros(n) == [i \in 1..n |-> 0]

RECURSIVE WeightedSum(_, _)
WeightedSum(data, i) ==
    IF i > Len(data) THEN 0 ELSE i * data[i] + WeightedSum(data, i + 1)

\* hashlib.md5(data).digest(), as a digest of FieldCells cells
Md5(data) == << (Len(data) + WeightedSum(data, 1)) % DigestRange >>

\* data[:k] + b'\0'*FieldCells + data[k+FieldCells:]
ZeroField(data, k) ==
    SubSeq(data, 1, Min(k, Len(data))) \o Zeros(FieldCells)
        \o SubSeq(data, k + FieldCells + 1, Len(data))

\* offset of the md5sum field in the header: magic, version, uuid, ctime
HeaderSumOff == 4 * FieldCells
\* offset of the md5sum field in an extent: magic, skip, block_count, uuid
ExtentSumOff == 3 * FieldCells + SkipCells


-----------------------------------------------------------------------------
(* Parsing *)

\* [int.from_bytes(fo.read(..)) for _ in range(k)] from cursor p
RECURSIVE ReadInts(_, _, _)
ReadInts(a, p, k) ==
    IF k = 0 THEN [vals |-> << >>, pos |-> p]
    ELSE LET r == ReadInts(a, AfterRead(a, p, FieldCells), k - 1)
         IN  [vals |-> << FromBytes(Read(a, p, FieldCells)) >> \o r.vals,
              pos |-> r.pos]

\* VmaDeviceInfoHeader(fo, header): name, skip, size, skip
VmaDeviceInfoHeader(a, p) ==
    LET p1 == AfterRead(a, p, FieldCells)
        p2 == p1 + SkipCells
        p3 == AfterRead(a, p2, FieldCells)
    IN  [dev |-> [device_name |-> FromBytes(Read(a, p, FieldCells)),
                  device_size |-> FromBytes(Read(a, p2, FieldCells))],
         pos |-> p3 + SkipCells]

RECURSIVE ReadDevInfos(_, _, _)
ReadDevInfos(a, p, k) ==
    IF k = 0 THEN [vals |-> << >>, pos |-> p]
    ELSE LET d == VmaDeviceInfoHeader(a, p)
             r == ReadDevInfos(a, d.pos, k - 1)
         IN  [vals |-> << d.dev >> \o r.vals, pos |-> r.pos]

\* Blockinfo(fo): mask, skip, dev_id, cluster_num
Blockinfo(a, p) ==
    LET p1 == AfterRead(a, p, FieldCells)
        p2 == p1 + SkipCells
        p3 == AfterRead(a, p2, FieldCells)
    IN  [info |-> [mask |-> FromBytes(Read(a, p, FieldCells)),
                   dev_id |-> FromBytes(Read(a, p2, FieldCells)),
                   cluster_num |-> FromBytes(Read(a, p3, FieldCells))],
         pos |-> AfterRead(a, p3, FieldCells)]

RECURSIVE ReadBlockinfos(_, _, _)
ReadBlockinfos(a, p, k) ==
    IF k = 0 THEN [vals |-> << >>, pos |-> p]
    ELSE LET b == Blockinfo(a, p)
             r == ReadBlockinfos(a, b.pos, k - 1)
         IN  [vals |-> << b.info >> \o r.vals, pos |-> r.pos]

\* VmaHeader._gen_md5sum: the cursor is saved, moved to 0 and past the
\* header_size cells read, and restored; the result is [digest, pos]
HeaderGenMd5(a, p, header_size) ==
    LET saved == p
        data == Read(a, 0, header_size)
    IN  [digest |-> Md5(ZeroField(data, HeaderSumOff)),
         pos |-> saved]

\* VmaExtentHeader._gen_md5sum with fo.seek(self.start) in the place of
\* fo.seek(pos)
ExtentGenMd5AtStart(a, p, start, end) ==
    [digest |-> Md5(ZeroField(Read(a, start, end - start), ExtentSumOff)),
     pos |-> start]

\* VmaExtentHeader._gen_md5sum over [start, end)
ExtentGenMd5(a, p, start, end) ==
    LET saved == p
        data == Read(a, start, end - start)
    IN  [digest |-> Md5(ZeroField(data, ExtentSumOff)),
         pos |-> saved]

\* VmaHeader.__init__, lines 12-27: the fixed fields.  ok is "" or the
\* assertion that failed; pos is the cursor where parsing stopped.
VmaHeaderFixed(a) ==
    LET magic == Read(a, 0, FieldCells)
        p1 == AfterRead(a, 0, FieldCells)
        version == FromBytes(Read(a, p1, FieldCells))
        p2 == AfterRead(a, p1, FieldCells)
        uuid == Read(a, p2, FieldCells)
        p3 == AfterRead(a, p2, FieldCells)
        ctime == FromBytes(Read(a, p3, FieldCells))
        p4 == AfterRead(a, p3, FieldCells)
        md5sum == Read(a, p4, FieldCells)
        p5 == AfterRead(a, p4, FieldCells)
        p6 == AfterRead(a, p5, FieldCells)
        p7 == AfterRead(a, p6, FieldCells)
        p8 == AfterRead(a, p7, FieldCells)
        names == ReadInts(a, p8 + SkipCells, NCFG)
        datas == ReadInts(a, names.pos, NCFG)
        devs == ReadDevInfos(a, datas.pos + SkipCells, NDEV)
    IN  IF magic # << VMA_MAGIC >> THEN [ok |-> "magic", pos |-> p1]
        ELSE IF version # VERSION THEN [ok |-> "version", pos |-> p2]
        ELSE [ok |-> "",
              pos |-> devs.pos + SkipCells,
              uuid |-> uuid,
              ctime |-> ctime,
              md5sum |-> md5sum,
              blob_buffer_offset |-> FromBytes(Read(a, p5, FieldCells)),
              blob_buffer_size |-> FromBytes(Read(a, p6, FieldCells)),
              header_size |-> FromBytes(Read(a, p7, FieldCells)),
              config_names |-> names.vals,
              config_data |-> datas.vals,
              dev_info |-> devs.vals]

\* Blob(fo): a length and that many cells; [data, pos]
Blob(a, p) ==
    LET size == FromBytes(Read(a, p, FieldCells))
        p1 == AfterRead(a, p, FieldCells)
    IN  [data |-> Read(a, p1, size), pos |-> AfterRead(a, p1, size)]

\* VmaExtentHeader.__init__, lines 59-67
VmaExtentFixed(a, p) ==
    LET magic == Read(a, p, FieldCells)
        p1 == AfterRead(a, p, FieldCells)
        p2 == p1 + SkipCells
        p3 == AfterRead(a, p2, FieldCells)
        p4 == AfterRead(a, p3, FieldCells)
        p5 == AfterRead(a, p4, FieldCells)
        infos == ReadBlockinfos(a, p5, NBI)
    IN  IF magic # << VMAE_MAGIC >> THEN [ok |-> "magic", pos |-> p1]
        ELSE [ok |-> "",
              pos |-> infos.pos,
              start |-> p,
              end |-> infos.pos,
              block_count |-> FromBytes(Read(a, p2, FieldCells)),
              uuid |-> Read(a, p3, FieldCells),
              md5sum |-> Read(a, p4, FieldCells),
              blockinfo |-> infos.vals]

\* name.split(b'\0')[0]: the cells before the first zero cell
RECURSIVE SplitNul(_)
SplitNul(data) ==
    IF data = << >> \/ data[1] = 0 THEN << >>
    ELSE << data[1] >> \o SplitNul(Tail(data))

-----------------------------------------------------------------------------
(* The archives the runs are given: built in the layout the parser reads,  *)
(* with chosen corruptions, and cut short by some cells.                   *)

Bit(mask, i) == (mask \div (2 ^ i)) % 2

RECURSIVE PopCountBelow(_, _)
\* number of set bits of mask at positions below i
PopCountBelow(mask, i) ==
    IF i = 0 THEN 0 ELSE Bit(mask, i - 1) + PopCountBelow(mask, i - 1)

PopCount(mask) == PopCountBelow(mask, NBITS)

\* cells of payload a mask stands for
MaskLen(mask) ==
    IF mask = FULL_MASK THEN CLUSTER_SIZE ELSE SUB_SIZE * PopCount(mask)

\* cells of payload that follow a block-info in a well-formed archive
PayloadLen(info) == IF info.dev_id = 0 THEN 0 ELSE MaskLen(info.mask)

RECURSIVE Flatten(_)
Flatten(ss) == IF ss = << >> THEN << >> ELSE ss[1] \o Flatten(Tail(ss))

RECURSIVE SumLens(_)
SumLens(infos) ==
    IF infos = << >> THEN 0 ELSE PayloadLen(infos[1]) + SumLens(Tail(infos))

UUID == 7
FOREIGN_UUID == 8
PayloadBase == 100
NameBase == 200

\* a payload cell is named after its position in the archive
Payload(start, n) == [i \in 1..n |-> PayloadBase + start + i - 1]

WithSum(cells, off, sumok) ==
    LET d == Md5(ZeroField(cells, off))[1]
    IN  [cells EXCEPT ![off + 1] = IF sumok THEN d ELSE (d + 1) % DigestRange]

BlobOff == 8 * FieldCells + SkipCells + 2 * NCFG * FieldCells + SkipCells
             + NDEV * (2 * FieldCells + 2 * SkipCells)
BlobRecLen == FieldCells + 1
CfgNameOff(j) == SkipCells + 2 * BlobRecLen * (j - 1)
CfgDataOff(j) == CfgNameOff(j) + BlobRecLen
DevNameOff(i) == SkipCells + 2 * BlobRecLen * NCFG + BlobRecLen * (i - 1)
BlobSize == SkipCells + 2 * BlobRecLen * NCFG + BlobRecLen * NDEV
HeaderSize == BlobOff + BlobSize + 1

\* h = [magic, version, sumok, sizes]; sizes[i] is the declared size of
\* device id i - 1
MkHeader(h) ==
    LET fixed == << h.magic, h.version, UUID, 5, 0, BlobOff, BlobSize,
                    HeaderSize >>
        names == [j \in 1..NCFG |-> CfgNameOff(j)]
        datas == [j \in 1..NCFG |-> CfgDataOff(j)]
        devs == Flatten([i \in 1..NDEV |->
                    << IF h.sizes[i] > 0 THEN DevNameOff(i) ELSE 0, 0,
                       h.sizes[i], 0 >>])
        blobs == Flatten([j \in 1..NCFG |->
                    << 1, NameBase + j, 1, NameBase + NCFG + j >>])
                 \o Flatten([i \in 1..NDEV |-> << 1, NameBase + 2 * NCFG + i >>])
        cells == fixed \o Zeros(SkipCells) \o names \o datas \o Zeros(SkipCells)
                   \o devs \o Zeros(SkipCells) \o blobs \o << 0 >>
    IN  WithSum(cells, HeaderSumOff, h.sumok)

\* e = [magic, uuid, sumok, infos]; start is where the extent begins
MkExtent(e, start) ==
    LET fixed == << e.magic, 0, Len(e.infos), e.uuid, 0 >>
        infos == Flatten([k \in 1..Len(e.infos) |->
                    << e.infos[k].mask, 0, e.infos[k].dev_id,
                       e.infos[k].cluster_num >>])
        hd == WithSum(fixed \o infos, ExtentSumOff, e.sumok)
    IN  hd \o Payload(start + Len(hd), SumLens(e.infos))

RECURSIVE MkExtents(_, _)
MkExtents(es, start) ==
    IF es = << >> THEN << >>
    ELSE LET x == MkExtent(es[1], start)
         IN  x \o MkExtents(Tail(es), start + Len(x))

\* the archive of header h and extents es, without its last cut cells
MkArchive(h, es, cut) ==
    LET hd == MkHeader(h)
        full == hd \o MkExtents(es, Len(hd))
    IN  SubSeq(full, 1, Len(full) - Min(cut, Len(full)))

Info(m, d, c) == [mask |-> m, dev_id |-> d, cluster_num |-> c]
Hdr(m, v, s, z) == [magic |-> m, version |-> v, sumok |-> s, sizes |-> z]
Ext(m, u, s, infos) == [magic |-> m, uuid |-> u, sumok |-> s, infos |-> infos]

\* cells of a block-info, of an extent header, and where descriptor i begins
InfoLen == 3 * FieldCells + SkipCells
ExtentLen == ExtentSumOff + FieldCells + NBI * InfoLen
DevInfoOff(i) ==
    8 * FieldCells + SkipCells + 2 * NCFG * FieldCells + SkipCells
        + i * (2 * FieldCells + 2 * SkipCells)

\* archive a with cell k of the header set to v, the checksum made right
PatchHeader(a, k, v) ==
    WithSum([SubSeq(a, 1, HeaderSize) EXCEPT ![k + 1] = v], HeaderSumOff, TRUE)
        \o SubSeq(a, HeaderSize + 1, Len(a))

\* archive a with cell k of the extent header at e set to v, the checksum
\* made right
PatchExtent(a, e, k, v) ==
    SubSeq(a, 1, e)
        \o WithSum([SubSeq(a, e + 1, e + ExtentLen) EXCEPT ![k + 1] = v],
                   ExtentSumOff, TRUE)
        \o SubSeq(a, e + ExtentLen + 1, Len(a))

DevSize == 2 * CLUSTER_SIZE
GoodHdr == Hdr(VMA_MAGIC, VERSION, TRUE, << 0, DevSize, DevSize >>)
GoodExt(infos) == Ext(VMAE_MAGIC, UUID, TRUE, infos)

-----------------------------------------------------------------------------
(* The reader: extract(), lines 103-177 *)

None == << -1 >>

NoHeader ==
    [uuid |-> << >>, ctime |-> 0, md5sum |-> << >>, blob_buffer_offset |-> 0,
     blob_buffer_size |-> 0, header_size |-> 0, config_names |-> << >>,
     config_data |-> << >>, dev_info |-> << >>, blob_buffer |-> << >>,
     generated_md5sum |-> None]

NoExtent ==
    [start |-> 0, end |-> 0, block_count |-> 0, uuid |-> << >>,
     md5sum |-> << >>, blockinfo |-> << >>, generated_md5sum |-> None]

InitWith(a, sh, mw) ==
    /\ archive = a
    /\ skip_hash = sh
    /\ max_workers = mw
    /\ fo = 0
    /\ pc = "start"
    /\ error = ""
    /\ header = NoHeader
    /\ extent = NoExtent
    /\ bi = 0
    /\ idx = 0
    /\ configs = << >>
    /\ device_outs = << >>
    /\ locks = << >>
    /\ cluster_buf = << >>
    /\ submitted = << >>
    /\ queue = << >>
    /\ wk = [w \in 1..mw |-> [st |-> "idle", task |-> 0]]
    /\ result = << >>
    /\ digests = 0

\* an exception leaves extract(): nothing after the raising line runs
Raise(kind, p) ==
    /\ pc' = "failed"
    /\ error' = kind
    /\ fo' = p

\* the assertions without the "is not None" guard
SumOkUnguarded(md5sum, generated) == md5sum = generated

\* the assertions left out
SumOkUnchecked(md5sum, generated) == TRUE

\* lines 110-111 and 141-142: if generated_md5sum is not None: assert ...
SumOk(md5sum, generated) == generated = None \/ md5sum = generated

\* line 140 left out
UuidOkUnchecked(h, x) == TRUE

\* line 140: assert header.uuid == extent.uuid
UuidOk(h, x) == h.uuid = x.uuid

\* lines 109, 12-28
ParseHeader ==
    /\ pc = "start"
    /\ LET h == VmaHeaderFixed(archive)
       IN  IF h.ok # ""
           THEN /\ Raise("format", h.pos)
                /\ UNCHANGED header
           ELSE /\ header' = [uuid |-> h.uuid, ctime |-> h.ctime,
                              md5sum |-> h.md5sum,
                              blob_buffer_offset |-> h.blob_buffer_offset,
                              blob_buffer_size |-> h.blob_buffer_size,
                              header_size |-> h.header_size,
                              config_names |-> h.config_names,
                              config_data |-> h.config_data,
                              dev_info |-> h.dev_info,
                              blob_buffer |-> << >>,
                              generated_md5sum |-> None]
                /\ fo' = h.pos
                /\ pc' = "blob"
                /\ UNCHANGED error
    /\ UNCHANGED <<archive, skip_hash, max_workers, extent, bi, idx, configs,
                   device_outs, locks, cluster_buf, submitted, queue, wk,
                   result, digests>>

BlobEnd == header.blob_buffer_offset + header.blob_buffer_size

\* lines 30-32: one iteration of the blob-table loop
BlobStep ==
    /\ pc = "blob"
    /\ fo < BlobEnd
    /\ LET offset == fo - header.blob_buffer_offset
           b == Blob(archive, fo)
       IN  /\ header' = [header EXCEPT
                            !.blob_buffer = (offset :> b.data) @@ @]
           /\ fo' = b.pos
    /\ UNCHANGED <<archive, skip_hash, max_workers, pc, error, extent, bi, idx,
                   configs, device_outs, locks, cluster_buf, submitted, queue,
                   wk, result, digests>>

\* line 34 and lines 110-111 for a header whose cursor is at header_size:
\* the digest (None when sh), the digests computed, the cursor, the verdict
HeaderCheck(sh, a, h) ==
    LET g == IF sh THEN [digest |-> None, pos |-> h.header_size]
             ELSE HeaderGenMd5(a, h.header_size, h.header_size)
    IN  [generated |-> g.digest,
         computed |-> IF sh THEN 0 ELSE 1,
         pos |-> g.pos,
         ok |-> SumOk(h.md5sum, g.digest)]

\* lines 33-34 and 110-111: the loop ends, the cursor goes to header_size,
\* the digest is computed unless skip_hash, and compared
HeaderDone ==
    /\ pc = "blob"
    /\ ~(fo < BlobEnd)
    /\ LET c == HeaderCheck(skip_hash, archive, header)
       IN  /\ header' = [header EXCEPT !.generated_md5sum = c.generated]
           /\ digests' = digests + c.computed
           /\ IF c.ok
              THEN /\ fo' = c.pos
                   /\ pc' = "configs"
                   /\ UNCHANGED error
              ELSE Raise("integrity", c.pos)
    /\ UNCHANGED <<archive, skip_hash, max_workers, extent, bi, idx, configs,
                   device_outs, locks, cluster_buf, submitted, queue, wk,
                   result>>

\* extract_configs, lines 95-100, from slot i on: the files written, and
\* whether a blob lookup raised KeyError
RECURSIVE WriteConfigs(_, _, _)
WriteConfigs(h, i, files) ==
    IF i > Len(h.config_names) THEN [ok |-> TRUE, files |-> files]
    ELSE IF h.config_names[i] = 0 THEN WriteConfigs(h, i + 1, files)
    ELSE IF h.config_names[i] \notin DOMAIN h.blob_buffer
            \/ h.config_data[i] \notin DOMAIN h.blob_buffer
         THEN [ok |-> FALSE, files |-> files]
    ELSE WriteConfigs(h, i + 1,
            (SplitNul(h.blob_buffer[h.config_names[i]])
                 :> h.blob_buffer[h.config_data[i]]) @@ files)

\* lines 112-113
ExtractConfigs ==
    /\ pc = "configs"
    /\ LET r == WriteConfigs(header, 1, configs)
       IN  /\ configs' = r.files
           /\ IF r.ok
              THEN /\ fo' = header.header_size
                   /\ pc' = "outputs"
                   /\ UNCHANGED error
              ELSE Raise("reference", fo)
    /\ idx' = 0
    /\ UNCHANGED <<archive, skip_hash, max_workers, header, extent, bi,
                   device_outs, locks, cluster_buf, submitted, queue, wk,
                   result, digests>>

\* open(path, 'wb+')
NewFile(name) == [name |-> name, pos |-> 0, data |-> << >>, closed |-> FALSE]

\* line 119 with the test left out: every descriptor gets a file
PresentAlways(dev) == TRUE

\* line 119: if dev.device_size > 0
Present(dev) == dev.device_size > 0

\* lines 118-123: one iteration of the output loop
OpenOutput ==
    /\ pc = "outputs"
    /\ idx < Len(header.dev_info)
    /\ LET dev == header.dev_info[idx + 1]
       IN  IF Present(dev)
           THEN IF dev.device_name \in DOMAIN header.blob_buffer
                THEN /\ device_outs' =
                          (idx :> NewFile(SplitNul(
                                     header.blob_buffer[dev.device_name])))
                              @@ device_outs
                     /\ locks' = (idx :> 0) @@ locks
                     /\ idx' = idx + 1
                     /\ UNCHANGED <<pc, error, fo>>
                ELSE /\ Raise("reference", fo)
                     /\ UNCHANGED <<device_outs, locks, idx>>
           ELSE /\ idx' = idx + 1
                /\ UNCHANGED <<device_outs, locks, pc, error, fo>>
    /\ UNCHANGED <<archive, skip_hash, max_workers, header, extent, bi,
                   configs, cluster_buf, submitted, queue, wk, result,
                   digests>>

ZERO_CLUSTER == Zeros(CLUSTER_SIZE)

\* lines 125-136: the buffers and the executor
StartPool ==
    /\ pc = "outputs"
    /\ idx = Len(header.dev_info)
    /\ cluster_buf' = Zeros(CLUSTER_SIZE)
    /\ pc' = "extent"
    /\ UNCHANGED <<archive, skip_hash, max_workers, fo, error, header, extent,
                   bi, idx, configs, device_outs, locks, submitted, queue, wk,
                   result, digests>>

\* line 68 and lines 140-142 for a parsed extent x: the digest (None when
\* sh), the digests computed, the cursor, and "" or the assertion that fails
ExtentCheck(sh, a, h, x) ==
    LET g == IF sh THEN [digest |-> None, pos |-> x.pos]
             ELSE ExtentGenMd5(a, x.pos, x.start, x.end)
    IN  [generated |-> g.digest,
         computed |-> IF sh THEN 0 ELSE 1,
         pos |-> g.pos,
         fails |-> IF ~UuidOk(h, x) THEN "identity"
                   ELSE IF ~SumOk(x.md5sum, g.digest) THEN "integrity"
                   ELSE ""]

\* lines 138-142: the next extent header, its digest, the two assertions
ExtentStep ==
    /\ pc = "extent"
    /\ fo < Total(archive)
    /\ LET x == VmaExtentFixed(archive, fo)
       IN  IF x.ok # ""
           THEN /\ Raise("format", x.pos)
                /\ UNCHANGED <<extent, digests, bi>>
           ELSE LET c == ExtentCheck(skip_hash, archive, header, x)
                IN  /\ extent' = [start |-> x.start, end |-> x.end,
                                  block_count |-> x.block_count,
                                  uuid |-> x.uuid, md5sum |-> x.md5sum,
                                  blockinfo |-> x.blockinfo,
                                  generated_md5sum |-> c.generated]
                    /\ digests' = digests + c.computed
                    /\ IF c.fails # ""
                       THEN /\ Raise(c.fails, c.pos)
                            /\ UNCHANGED bi
                       ELSE /\ fo' = c.pos
                            /\ pc' = "blockinfo"
                            /\ bi' = 1
                            /\ UNCHANGED error
    /\ UNCHANGED <<archive, skip_hash, max_workers, header, idx, configs,
                   device_outs, locks, cluster_buf, submitted, queue, wk,
                   result>>

-----------------------------------------------------------------------------
(* Cluster reconstruction, lines 146-162 *)

\* buf[lo:hi] = chunk on a bytearray: the slice is clamped to the buffer and
\* replaced by the chunk, whatever the chunk's length
SliceAssign(buf, lo, hi, chunk) ==
    LET l == Min(lo, Len(buf))
        h == Max(l, Min(hi, Len(buf)))
    IN  SubSeq(buf, 1, l) \o chunk \o SubSeq(buf, h + 1, Len(buf))

\* lines 156-159 from bit i on: [buf, pos]
RECURSIVE PartialLoop(_, _, _, _, _)
PartialLoop(a, p, mask, i, buf) ==
    IF i = NBITS THEN [buf |-> buf, pos |-> p]
    ELSE IF Bit(mask, i) = 1
         THEN PartialLoop(a, AfterRead(a, p, SUB_SIZE), mask, i + 1,
                  SliceAssign(buf, i * SUB_SIZE, (i + 1) * SUB_SIZE,
                              Read(a, p, SUB_SIZE)))
         ELSE PartialLoop(a, p, mask, i + 1, buf)

\* fo.readinto(cluster_buf): the cells read replace the front of the buffer
ReadInto(a, p, buf) ==
    LET chunk == Read(a, p, Len(buf))
    IN  chunk \o SubSeq(buf, Len(chunk) + 1, Len(buf))

\* the object cluster_buf itself, handed over in the place of its content
Shared == << -2 >>

\* line 151 as data = cluster_buf: the task holds the reader's buffer
BytesAliased(buf) == Shared

\* line 151: bytes(cluster_buf), a new immutable object with the content
\* the buffer has now
Bytes(buf) == buf

\* lines 149-160 with the zero mask read like the full mask
ReconstructZeroReads(a, p, mask, cbuf) ==
    IF mask = FULL_MASK \/ mask = 0
    THEN [data |-> Bytes(ReadInto(a, p, cbuf)),
          pos |-> AfterRead(a, p, Len(cbuf)),
          cluster_buf |-> ReadInto(a, p, cbuf)]
    ELSE LET r == PartialLoop(a, p, mask, 0, Zeros(CLUSTER_SIZE))
         IN  [data |-> r.buf, pos |-> r.pos, cluster_buf |-> cbuf]

\* lines 149-160: [data, pos, cluster_buf] for a mask at cursor p
Reconstruct(a, p, mask, cbuf) ==
    IF mask = FULL_MASK
    THEN [data |-> Bytes(ReadInto(a, p, cbuf)),
          pos |-> AfterRead(a, p, Len(cbuf)),
          cluster_buf |-> ReadInto(a, p, cbuf)]
    ELSE IF mask = 0
    THEN [data |-> ZERO_CLUSTER, pos |-> p, cluster_buf |-> cbuf]
    ELSE LET r == PartialLoop(a, p, mask, 0, Zeros(CLUSTER_SIZE))
         IN  [data |-> r.buf, pos |-> r.pos, cluster_buf |-> cbuf]

\* line 145 left out
SkippedNever(info) == FALSE

\* line 145: if info.dev_id == 0: continue
Skipped(info) == info.dev_id = 0

\* lines 144-162: one iteration of the block-info loop; after the last one
\* the while loop of line 138 is entered again
BlockInfoStep ==
    /\ pc = "blockinfo"
    /\ LET info == extent.blockinfo[bi]
           r == Reconstruct(archive, fo, info.mask, cluster_buf)
       IN  IF Skipped(info)
           THEN UNCHANGED <<fo, cluster_buf, submitted, queue, result>>
           ELSE /\ fo' = r.pos
                /\ cluster_buf' = r.cluster_buf
                /\ submitted' = Append(submitted,
                      [dev_id |-> info.dev_id,
                       pos |-> info.cluster_num * CLUSTER_SIZE,
                       data |-> r.data,
                       mask |-> info.mask,
                       before |-> fo,
                       after |-> r.pos,
                       ext |-> extent.start,
                       slot |-> bi])
                /\ queue' = Append(queue, Len(submitted) + 1)
                /\ result' = Append(result, "")
    /\ IF bi < Len(extent.blockinfo)
       THEN bi' = bi + 1 /\ UNCHANGED pc
       ELSE bi' = 0 /\ pc' = "extent"
    /\ UNCHANGED <<archive, skip_hash, max_workers, error, header, extent,
                   idx, configs, device_outs, locks, wk, digests>>

\* line 138: the archive is exhausted
LoopExit ==
    /\ pc = "extent"
    /\ ~(fo < Total(archive))
    /\ pc' = "shutdown"
    /\ UNCHANGED <<archive, skip_hash, max_workers, fo, error, header, extent,
                   bi, idx, configs, device_outs, locks, cluster_buf,
                   submitted, queue, wk, result, digests>>

AllIdle == \A w \in DOMAIN wk : wk[w].st = "idle"

\* executor.shutdown(wait=False): returns at once
DrainedNoWait == TRUE

\* executor.shutdown(wait=True) returns when no task is queued or running
Drained == queue = << >> /\ AllIdle

\* line 173
Shutdown ==
    /\ pc = "shutdown"
    /\ Drained
    /\ pc' = "closing"
    /\ UNCHANGED <<archive, skip_hash, max_workers, fo, error, header, extent,
                   bi, idx, configs, device_outs, locks, cluster_buf,
                   submitted, queue, wk, result, digests>>

\* lines 174-177
CloseFiles ==
    /\ pc = "closing"
    /\ device_outs' = [d \in DOMAIN device_outs |->
                          [device_outs[d] EXCEPT !.closed = TRUE]]
    /\ pc' = "complete"
    /\ UNCHANGED <<archive, skip_hash, max_workers, fo, error, header, extent,
                   bi, idx, configs, locks, cluster_buf, submitted, queue, wk,
                   result, digests>>

-----------------------------------------------------------------------------
(* The pool's workers running write_cluster, lines 128-132 *)

Idle == [st |-> "idle", task |-> 0]

\* a worker takes the oldest queued task
Take(w) ==
    /\ wk[w].st = "idle"
    /\ queue # << >>
    /\ wk' = [wk EXCEPT ![w] = [st |-> "run", task |-> Head(queue)]]
    /\ queue' = Tail(queue)
    /\ UNCHANGED <<archive, skip_hash, max_workers, fo, pc, error, header,
                   extent, bi, idx, configs, device_outs, locks, cluster_buf,
                   submitted, result, digests>>

\* the task ends: its outcome is kept in its future, the worker is free
Finish(w, outcome) ==
    /\ result' = [result EXCEPT ![wk[w].task] = outcome]
    /\ wk' = [wk EXCEPT ![w] = Idle]

\* write_cluster without the with statement: nothing is waited for
MayEnterNoLock(w, d) == TRUE

\* with locks[dev_id]: may this worker enter now?
MayEnter(w, d) == locks[d] = 0

\* line 129: locks[dev_id] raises KeyError, or the lock is acquired
Acquire(w) ==
    /\ wk[w].st = "run"
    /\ LET d == submitted[wk[w].task].dev_id
       IN  IF d \notin DOMAIN locks
           THEN /\ Finish(w, "KeyError")
                /\ UNCHANGED locks
           ELSE /\ MayEnter(w, d)
                /\ locks' = [locks EXCEPT ![d] = w]
                /\ wk' = [wk EXCEPT ![w].st = "locked"]
                /\ UNCHANGED result
    /\ UNCHANGED <<archive, skip_hash, max_workers, fo, pc, error, header,
                   extent, bi, idx, configs, device_outs, cluster_buf,
                   submitted, queue, digests>>

\* lines 129-131 with the with block ending after the seek: the lock is
\* released before the write
SeekThenRelease(w) ==
    /\ wk[w].st = "locked"
    /\ LET t == submitted[wk[w].task]
       IN  /\ locks' = [locks EXCEPT ![t.dev_id] = 0]
           /\ IF device_outs[t.dev_id].closed
              THEN /\ Finish(w, "ValueError")
                   /\ UNCHANGED device_outs
              ELSE /\ device_outs' = [device_outs EXCEPT ![t.dev_id].pos = t.pos]
                   /\ wk' = [wk EXCEPT ![w].st = "seeked"]
                   /\ UNCHANGED result
    /\ UNCHANGED <<archive, skip_hash, max_workers, fo, pc, error, header,
                   extent, bi, idx, configs, cluster_buf, submitted, queue,
                   digests>>

\* lines 130-131: f.seek(pos); a closed file raises ValueError and the
\* with statement releases the lock
Seek(w) ==
    /\ wk[w].st = "locked"
    /\ LET t == submitted[wk[w].task]
       IN  IF device_outs[t.dev_id].closed
           THEN /\ Finish(w, "ValueError")
                /\ locks' = [locks EXCEPT ![t.dev_id] = 0]
                /\ UNCHANGED device_outs
           ELSE /\ device_outs' = [device_outs EXCEPT ![t.dev_id].pos = t.pos]
                /\ wk' = [wk EXCEPT ![w].st = "seeked"]
                /\ UNCHANGED <<locks, result>>
    /\ UNCHANGED <<archive, skip_hash, max_workers, fo, pc, error, header,
                   extent, bi, idx, configs, cluster_buf, submitted, queue,
                   digests>>

\* f.write(data) at the file's position: a gap before it reads as zeros
WriteAt(f, data) ==
    LET old == f.data
        gap == IF f.pos > Len(old) THEN Zeros(f.pos - Len(old)) ELSE << >>
    IN  [f EXCEPT !.data = SubSeq(old, 1, Min(f.pos, Len(old))) \o gap
                             \o data
                             \o SubSeq(old, f.pos + Len(data) + 1, Len(old)),
                  !.pos = f.pos + Len(data)]

\* the bytes a task's data object holds now
DataOf(t) == IF t.data = Shared THEN cluster_buf ELSE t.data

\* line 132, and the release of the lock at the end of the with block
Write(w) ==
    /\ wk[w].st = "seeked"
    /\ LET t == submitted[wk[w].task]
       IN  /\ IF device_outs[t.dev_id].closed
              THEN /\ Finish(w, "ValueError")
                   /\ UNCHANGED device_outs
              ELSE /\ device_outs' = [device_outs EXCEPT
                          ![t.dev_id] = WriteAt(@, DataOf(t))]
                   /\ Finish(w, "ok")
           /\ locks' = [locks EXCEPT ![t.dev_id] = 0]
    /\ UNCHANGED <<archive, skip_hash, max_workers, fo, pc, error, header,
                   extent, bi, idx, configs, cluster_buf, submitted, queue,
                   digests>>

Reader ==
    \/ ParseHeader
    \/ BlobStep
    \/ HeaderDone
    \/ ExtractConfigs
    \/ OpenOutput
    \/ StartPool
    \/ ExtentStep
    \/ BlockInfoStep
    \/ LoopExit
    \/ Shutdown
    \/ CloseFiles

Workers ==
    \/ \E w \in DOMAIN wk : Take(w)
    \/ \E w \in DOMAIN wk : Acquire(w)
    \/ \E w \in DOMAIN wk : Seek(w)
    \/ \E w \in DOMAIN wk : Write(w)

Next == Reader \/ Workers

-----------------------------------------------------------------------------
(* The runs checked *)

Masks == 0..FULL_MASK
Cuts == 0..MaxCut

\* second block-infos that follow every first one
SecondInfos ==
    { Info(FULL_MASK, 1, 1), Info(0, 1, 1), Info(FULL_MASK - 2, 2, 1),
      Info(FULL_MASK, 0, 1) }

\* one well-formed extent, every mask and device in its first block-info
OneExtent ==
    { << GoodExt(<< Info(m, d, 0), b >>) >> :
          m \in Masks, d \in 0..(NDEV - 1), b \in SecondInfos }

FirstExtents ==
    { GoodExt(<< Info(FULL_MASK, 1, 0), Info(1, 2, 0) >>),
      GoodExt(<< Info(0, 1, 1), Info(FULL_MASK, 0, 0) >>) }

SecondExtents ==
    { Ext(m, u, s, << b, Info(0, 1, 0) >>) :
          m \in {VMAE_MAGIC, VMA_MAGIC}, u \in {UUID, FOREIGN_UUID},
          s \in BOOLEAN,
          b \in { Info(FULL_MASK, 1, 1), Info(FULL_MASK - 1, 2, 1) } }

TwoExtents == { << x, y >> : x \in FirstExtents, y \in SecondExtents }

\* headers: the good one, device 2 not present, a device whose size is no
\* multiple of the cluster size, and the corrupted ones
Headers ==
    { GoodHdr,
      Hdr(VMA_MAGIC, VERSION, TRUE, << 0, DevSize - 1, CLUSTER_SIZE >>),
      Hdr(VMA_MAGIC, VERSION, TRUE, << 0, DevSize, 0 >>),
      Hdr(VMA_MAGIC, VERSION, TRUE, << DevSize, DevSize, DevSize >>),
      Hdr(VMAE_MAGIC, VERSION, TRUE, << 0, DevSize, DevSize >>),
      Hdr(VMA_MAGIC, VERSION + 1, TRUE, << 0, DevSize, DevSize >>),
      Hdr(VMA_MAGIC, VERSION, FALSE, << 0, DevSize, DevSize >>) }

\* two well-formed extents
GoodRuns ==
    { << x, GoodExt(<< Info(FULL_MASK, 1, 1), Info(0, 1, 0) >>) >> :
          x \in FirstExtents }

\* the blob region ends inside its last record: the declared region is one
\* cell short, or the last record's length reaches past the region
OverrunArchives ==
    { PatchHeader(MkArchive(GoodHdr, es, 0), 6 * FieldCells, BlobSize - 1) :
          es \in GoodRuns }
      \cup { PatchHeader(MkArchive(GoodHdr, es, 0), BlobOff + BlobSize - 2, 3) :
                 es \in GoodRuns }

\* every descriptor has a name, descriptor 1 has size zero
NamedAbsentArchives ==
    { PatchHeader(MkArchive(Hdr(VMA_MAGIC, VERSION, TRUE,
                                << DevSize, DevSize, DevSize >>), es, 0),
                  DevInfoOff(1) + FieldCells + SkipCells, 0) :
          es \in GoodRuns }

\* a first block-info with device id 0 and a mask, under a declared block
\* count that is not the number of block-infos in use
BlockCountArchives ==
    { PatchExtent(MkArchive(GoodHdr,
                            << GoodExt(<< Info(m, 0, 3), Info(FULL_MASK, 1, 1) >>) >>,
                            0),
                  HeaderSize, FieldCells + SkipCells, n) :
          m \in {1, FULL_MASK}, n \in {0, 1, NBI + 7} }

\* a header alone, whole or ending inside its blob table
HeaderCutArchives == { MkArchive(GoodHdr, << >>, c) : c \in Cuts }

ReaderArchives ==
    { MkArchive(GoodHdr, es, c) : es \in OneExtent \cup TwoExtents, c \in Cuts }
      \cup { MkArchive(h, es, 0) : h \in Headers, es \in TwoExtents }
      \cup OverrunArchives \cup NamedAbsentArchives \cup BlockCountArchives
      \cup HeaderCutArchives

\* writes for several clusters of two devices, all payloads present
ConcInfos ==
    { Info(m, d, c) : m \in {0, FULL_MASK}, d \in 1..2, c \in 0..MaxCluster }

ConcArchives ==
    { MkArchive(GoodHdr,
                << GoodExt(<< Info(FULL_MASK, 1, 0), b >>),
                   GoodExt(<< c, Info(1, 2, 0) >>) >>, 0) :
          b \in ConcInfos, c \in ConcInfos }

\* one worker, every archive
Init == \E a \in ReaderArchives, sh \in BOOLEAN : InitWith(a, sh, 1)

Spec == Init /\ [][Next]_vars

\* NWorkers workers, well-formed archives
InitConc == \E a \in ConcArchives : InitWith(a, FALSE, NWorkers)

SpecConc == InitConc /\ [][Next]_vars

-----------------------------------------------------------------------------
(* Properties *)

Finished(i) == result[i] # ""
AllFinished == \A i \in DOMAIN result : Finished(i)
Target(i) == << submitted[i].dev_id, submitted[i].pos >>
Alone(i) == \A j \in DOMAIN submitted : j # i => Target(j) # Target(i)
AllDistinct == \A i \in DOMAIN submitted : Alone(i)

\* the file of task i holds the task's data at the task's offset
Landed(i) ==
    LET t == submitted[i]
        f == device_outs[t.dev_id]
    IN  /\ Len(f.data) >= t.pos + Len(t.data)
        /\ SubSeq(f.data, t.pos + 1, t.pos + Len(t.data)) = t.data

\* the content of device d's file after the tasks of order ran one at a time
RECURSIVE OneAtATime(_, _, _)
OneAtATime(order, d, f) ==
    IF order = << >> THEN f.data
    ELSE LET t == submitted[Head(order)]
         IN  OneAtATime(Tail(order), d,
                 IF t.dev_id = d THEN WriteAt([f EXCEPT !.pos = t.pos], t.data)
                 ELSE f)

Orders ==
    { o \in [DOMAIN submitted -> DOMAIN submitted] :
          \A i, j \in DOMAIN submitted : i # j => o[i] # o[j] }

\* C1: once every submitted task has finished, each device file holds, at
\* the offset of every task that is the only one for its (device, cluster),
\* exactly the data submitted; and when all (device, cluster) pairs are
\* distinct the files are those of running the tasks one at a time, in any
\* order.
C1_WriteBackSafe ==
    AllFinished =>
        /\ \A i \in DOMAIN submitted :
              (Alone(i) /\ submitted[i].dev_id \in DOMAIN device_outs)
                  => Landed(i)
        /\ AllDistinct =>
              \A d \in DOMAIN device_outs : \A o \in Orders :
                  device_outs[d].data = OneAtATime(o, d, NewFile(<< >>))

C1_Witness ==
    /\ pc = "complete"
    /\ Len(submitted) = 2 * NBI
    /\ AllDistinct
    /\ \A i \in DOMAIN result : result[i] = "ok"
    /\ \E i, j \in DOMAIN submitted :
          i # j /\ submitted[i].dev_id = submitted[j].dev_id
    /\ \E i, j \in DOMAIN submitted : submitted[i].dev_id # submitted[j].dev_id

\* C2: when the run has failed, every task submitted before the failure
\* has been awaited to completion.
C2_GracefulDrain == pc = "failed" => AllFinished

PendingFor(d) ==
    \/ \E k \in DOMAIN queue : submitted[queue[k]].dev_id = d
    \/ \E w \in DOMAIN wk : wk[w].st # "idle" /\ submitted[wk[w].task].dev_id = d

\* C3: the run is complete only when every submitted task has finished and
\* every output file is closed; no file is closed while a task for it is
\* queued or running; no task ever ran on a closed file.
C3_CompletionOrder ==
    /\ pc = "complete" =>
          /\ AllFinished
          /\ \A d \in DOMAIN device_outs : device_outs[d].closed
    /\ \A d \in DOMAIN device_outs : device_outs[d].closed => ~PendingFor(d)
    /\ \A i \in DOMAIN result : result[i] # "ValueError"

C3_Witness ==
    /\ pc = "complete"
    /\ Len(submitted) >= 3
    /\ \A i \in DOMAIN result : result[i] = "ok"
    /\ \A d \in DOMAIN device_outs : device_outs[d].closed

\* what the archive holds, read at the places the format gives
CellAt(a, q) == IF q < Len(a) THEN a[q + 1] ELSE -1
HeaderUuidAt == Read(archive, 2 * FieldCells, FieldCells)
ExtentUuidAt(e) == Read(archive, e + 2 * FieldCells + SkipCells, FieldCells)
ClusterNumAt(e, k) ==
    FromBytes(Read(archive,
                   e + ExtentSumOff + FieldCells + (k - 1) * InfoLen
                     + 2 * FieldCells + SkipCells,
                   FieldCells))
HeaderSumGood(a) ==
    Md5(ZeroField(Read(a, 0, FromBytes(Read(a, 7 * FieldCells, FieldCells))),
                  HeaderSumOff))
        = Read(a, HeaderSumOff, FieldCells)
ExtentSumGood(a, e) ==
    Md5(ZeroField(Read(a, e, ExtentLen), ExtentSumOff))
        = Read(a, e + ExtentSumOff, FieldCells)
FromExtent(e) == { i \in DOMAIN submitted : submitted[i].ext = e }

\* C4: no write task is submitted for a block-info whose payload the
\* archive does not hold in full (the run fails with a truncation error
\* instead).
C4_TruncationFatal ==
    \A i \in DOMAIN submitted :
        submitted[i].after - submitted[i].before = MaskLen(submitted[i].mask)

\* C5: every task comes from an extent that carries the header's UUID, the
\* reader never enters the block-infos of an extent with another UUID, and
\* when the run fails on an extent's UUID nothing of that extent's payload
\* has been read and no task of that extent has been submitted.
C5_ForeignUuid ==
    /\ \A i \in DOMAIN submitted : ExtentUuidAt(submitted[i].ext) = HeaderUuidAt
    /\ pc = "blockinfo" => ExtentUuidAt(extent.start) = HeaderUuidAt
    /\ error = "identity" =>
          /\ pc = "failed"
          /\ ExtentUuidAt(extent.start) # HeaderUuidAt
          /\ fo = extent.end
          /\ FromExtent(extent.start) = {}

C5_Witness ==
    /\ error = "identity"
    /\ submitted # << >>
    /\ \E k \in DOMAIN extent.blockinfo : extent.blockinfo[k].dev_id # 0

\* the cluster a partial mask stands for, from the archive at cursor p
ExpectedPartial(a, p, mask) ==
    [c \in 1..CLUSTER_SIZE |->
        LET i == (c - 1) \div SUB_SIZE
        IN  IF Bit(mask, i) = 1
            THEN CellAt(a, p + SUB_SIZE * PopCountBelow(mask, i)
                              + ((c - 1) % SUB_SIZE))
            ELSE 0]

\* C6: the cluster submitted for a partial mask holds, in the sub-block of
\* every set bit i, the k-th sub-block read of the entry (k the number of
\* set bits below i), zeros in every other sub-block, and the cursor has
\* advanced by SUB_SIZE cells for every set bit.
C6_PartialMask ==
    \A i \in DOMAIN submitted :
        LET t == submitted[i]
        IN  (t.mask # 0 /\ t.mask # FULL_MASK) =>
                /\ t.after = t.before + SUB_SIZE * PopCount(t.mask)
                /\ t.data = ExpectedPartial(archive, t.before, t.mask)

\* C7: a zero-mask entry of a device leaves the cursor where it was and
\* submits CLUSTER_SIZE zero cells for offset cluster index x CLUSTER_SIZE;
\* once written (and no other task has the same target) the file holds them.
C7_ZeroMask ==
    \A i \in DOMAIN submitted :
        LET t == submitted[i]
        IN  t.mask = 0 =>
                /\ t.after = t.before
                /\ t.data = [c \in 1..CLUSTER_SIZE |-> 0]
                /\ t.pos = ClusterNumAt(t.ext, t.slot) * CLUSTER_SIZE
                /\ (result[i] = "ok" /\ Alone(i)) => Landed(i)

C7_Witness ==
    \E i \in DOMAIN submitted :
        /\ submitted[i].mask = 0
        /\ submitted[i].before < Total(archive)
        /\ submitted[i].pos > 0
        /\ result[i] = "ok"

\* C8: the cluster submitted for a full mask is the CLUSTER_SIZE cells of
\* the archive at the cursor, and the cursor has advanced by CLUSTER_SIZE.
C8_FullMask ==
    \A i \in DOMAIN submitted :
        LET t == submitted[i]
        IN  t.mask = FULL_MASK =>
                /\ t.after = t.before + CLUSTER_SIZE
                /\ t.data = [c \in 1..CLUSTER_SIZE |->
                                CellAt(archive, t.before + c - 1)]

\* archive a with the header's declared checksum made the right one
FixHeaderSum(a) ==
    [a EXCEPT ![HeaderSumOff + 1] =
        Md5(ZeroField(Read(a, 0, FromBytes(Read(a, 7 * FieldCells, FieldCells))),
                      HeaderSumOff))[1]]

\* archive a with the declared checksum of the extent at e made the right one
FixExtentSum(a, e) ==
    [a EXCEPT ![e + ExtentSumOff + 1] =
        Md5(ZeroField(Read(a, e, ExtentLen), ExtentSumOff))[1]]

\* the header check of a validating run on the archive with the right
\* header checksum, and of a run that skips validation on the archive as is
HeaderCheckAgrees ==
    LET a2 == FixHeaderSum(archive)
        h2 == [header EXCEPT !.md5sum = Read(a2, HeaderSumOff, FieldCells)]
        s == HeaderCheck(TRUE, archive, header)
        v == HeaderCheck(FALSE, a2, h2)
    IN  /\ s.generated = None
        /\ s.computed = 0
        /\ s.pos = v.pos
        /\ s.ok = v.ok

\* the same for the extent at the cursor: the two runs parse the same
\* extent but for its declared checksum, and end the checks alike
ExtentCheckAgrees ==
    LET a2 == FixExtentSum(archive, fo)
        x == VmaExtentFixed(archive, fo)
        x2 == VmaExtentFixed(a2, fo)
        s == ExtentCheck(TRUE, archive, header, x)
        v == ExtentCheck(FALSE, a2, header, x2)
    IN  /\ x.ok = x2.ok
        /\ x.pos = x2.pos
        /\ x.ok = "" =>
              /\ x2 = [x EXCEPT !.md5sum = x2.md5sum]
              /\ s.generated = None
              /\ s.computed = 0
              /\ s.pos = v.pos
              /\ s.fails = v.fails

\* What the archive decodes to when no checksum is looked at: the extents
\* from cursor p on, read as lines 138-162 read them, up to the end of the
\* archive or the first extent with a bad magic or a foreign UUID.
\* [log: the tasks in order, starts: where the extents begin]
RECURSIVE DecodeInfos(_, _, _, _, _, _)
DecodeInfos(a, x, k, p, cbuf, log) ==
    IF k > Len(x.blockinfo) THEN [pos |-> p, cbuf |-> cbuf, log |-> log]
    ELSE LET info == x.blockinfo[k]
             r == Reconstruct(a, p, info.mask, cbuf)
         IN  IF info.dev_id = 0 THEN DecodeInfos(a, x, k + 1, p, cbuf, log)
             ELSE DecodeInfos(a, x, k + 1, r.pos, r.cluster_buf,
                      Append(log, [dev_id |-> info.dev_id,
                                   pos |-> info.cluster_num * CLUSTER_SIZE,
                                   data |-> r.data, mask |-> info.mask,
                                   before |-> p, after |-> r.pos,
                                   ext |-> x.start, slot |-> k]))

RECURSIVE DecodeExtents(_, _, _, _, _)
DecodeExtents(a, p, cbuf, log, starts) ==
    IF ~(p < Total(a)) THEN [log |-> log, starts |-> starts]
    ELSE LET x == VmaExtentFixed(a, p)
         IN  IF x.ok # "" \/ x.uuid # Read(a, 2 * FieldCells, FieldCells)
             THEN [log |-> log, starts |-> starts]
             ELSE LET r == DecodeInfos(a, x, 1, x.pos, cbuf, log)
                  IN  DecodeExtents(a, r.pos, r.cbuf, r.log, Append(starts, p))

Decode(a) ==
    DecodeExtents(a, FromBytes(Read(a, 7 * FieldCells, FieldCells)),
                  Zeros(CLUSTER_SIZE), << >>, << >>)

RECURSIVE FixExtentSums(_, _)
FixExtentSums(a, starts) ==
    IF starts = << >> THEN a
    ELSE FixExtentSums(
             IF starts[1] + ExtentSumOff < Total(a)
             THEN FixExtentSum(a, starts[1]) ELSE a,
             Tail(starts))

\* the archive with every declared checksum made the right one
FixSums(a) == FixExtentSums(FixHeaderSum(a), Decode(a).starts)

IsPrefix(s, t) == Len(s) <= Len(t) /\ s = SubSeq(t, 1, Len(s))

\* C9: with validation disabled no digest is ever computed and no run fails
\* on a checksum.  Everything else is as in a validating run on the archive
\* with the right checksums: at each of the two places where validation
\* acts the step taken is the validating run's step (same cursor, same
\* verdict of the other checks); and in every run, validating or not, the
\* tasks submitted, with the cursor before and after each, are the leading
\* part (the whole, once the run is complete) of what the archive decodes
\* to, which the checksum cells do not change.
C9_SkipHash ==
    /\ skip_hash =>
          /\ digests = 0
          /\ error # "integrity"
          /\ header.generated_md5sum = None
          /\ extent.generated_md5sum = None
          /\ (pc = "blob" /\ ~(fo < BlobEnd)) => HeaderCheckAgrees
          /\ (pc = "extent" /\ fo + ExtentSumOff < Total(archive))
                => ExtentCheckAgrees
    /\ IsPrefix(submitted, Decode(archive).log)
    /\ pc = "complete" => submitted = Decode(archive).log
    /\ Decode(FixSums(archive)) = Decode(archive)

C9_Witness ==
    /\ skip_hash
    /\ pc = "complete"
    /\ ~HeaderSumGood(archive)
    /\ \E i \in DOMAIN submitted :
          ~ExtentSumGood(archive, submitted[i].ext) /\ result[i] = "ok"

\* C10: with validation enabled, a header whose digest differs from the
\* declared one never gets past header parsing and leaves no config file and
\* no output file; every task comes from an extent whose digest is the
\* declared one, the reader never enters the block-infos of another, and
\* when the run fails on an extent's checksum nothing of that extent's
\* payload has been read and no task of it has been submitted.
C10_ChecksumFatal ==
    ~skip_hash =>
        /\ ~HeaderSumGood(archive) =>
              /\ pc \in {"start", "blob", "failed"}
              /\ configs = << >>
              /\ device_outs = << >>
              /\ submitted = << >>
        /\ \A i \in DOMAIN submitted : ExtentSumGood(archive, submitted[i].ext)
        /\ pc = "blockinfo" => ExtentSumGood(archive, extent.start)
        /\ (error = "integrity" /\ HeaderSumGood(archive)) =>
              /\ pc = "failed"
              /\ ~ExtentSumGood(archive, extent.start)
              /\ fo = extent.end
              /\ FromExtent(extent.start) = {}

C10_Witness ==
    /\ ~skip_hash
    /\ error = "integrity"
    /\ HeaderSumGood(archive)
    /\ submitted # << >>
    /\ \E k \in DOMAIN extent.blockinfo : extent.blockinfo[k].dev_id # 0

AllOk == \A i \in DOMAIN result : result[i] = "ok"

\* the size the header of the archive declares for device d
DeclaredSize(d) == header.dev_info[d + 1].device_size

\* C11: after a run that completes without error, the output file of every
\* present device has the size its descriptor declares, and holds at
\* cluster index x CLUSTER_SIZE the cluster submitted for that index.
C11_DeclaredSize ==
    (pc = "complete" /\ error = "" /\ AllOk) =>
        \A d \in DOMAIN device_outs :
            /\ Len(device_outs[d].data) = DeclaredSize(d)
            /\ \A i \in DOMAIN submitted :
                  (submitted[i].dev_id = d /\ Alone(i)) => Landed(i)

\* the same without the size: the content alone
ContentLanded ==
    (pc = "complete" /\ error = "" /\ AllOk) =>
        \A d \in DOMAIN device_outs :
            \A i \in DOMAIN submitted :
                (submitted[i].dev_id = d /\ Alone(i)) => Landed(i)

\* a complete run over an untruncated archive that wrote every cluster of
\* device 1, whose declared size is no multiple of the cluster size
OversizedRun ==
    /\ pc = "complete" /\ AllOk
    /\ 1 \in DOMAIN device_outs
    /\ DeclaredSize(1) = DevSize - 1
    /\ Len(device_outs[1].data) = DevSize
    /\ \A i \in DOMAIN submitted :
          submitted[i].after - submitted[i].before = MaskLen(submitted[i].mask)

\* where the blob record stored under offset off ends in the archive
RecordEnd(off) ==
    header.blob_buffer_offset + off + FieldCells + Len(header.blob_buffer[off])

\* C12: no blob record stored in the header's mapping ends after
\* blob_buffer_offset + blob_buffer_size (a record that would is a format
\* error, not an entry of the mapping).
C12_BlobOverrunFatal ==
    \A off \in DOMAIN header.blob_buffer : RecordEnd(off) <= BlobEnd

\* a run that completed with a record stored that ends after the region
OverrunCompleted ==
    /\ pc = "complete"
    /\ \E off \in DOMAIN header.blob_buffer : RecordEnd(off) > BlobEnd

\* the name and the size the archive holds for descriptor d
NameAt(d) == FromBytes(Read(archive, DevInfoOff(d), FieldCells))
SizeAt(d) ==
    FromBytes(Read(archive, DevInfoOff(d) + FieldCells + SkipCells, FieldCells))
PresentIds == { d \in 0..(NDEV - 1) : SizeAt(d) > 0 }

\* output setup is over: the buffers of line 126 exist
SetupDone == cluster_buf # << >>

\* C13: a descriptor of size zero never has an output file or a lock; files
\* and locks go together; from the end of output setup on, whatever the
\* reader and the workers do, the devices with a file and a lock are exactly
\* the descriptors of non-zero size, one file and one lock each, and every
\* file is open until the run closes them at its end.
C13_DevicePresence ==
    /\ DOMAIN locks = DOMAIN device_outs
    /\ \A d \in DOMAIN device_outs : SizeAt(d) > 0
    /\ SetupDone =>
          /\ DOMAIN device_outs = PresentIds
          /\ pc \in {"extent", "blockinfo", "shutdown", "closing", "failed"} =>
                \A d \in DOMAIN device_outs : ~device_outs[d].closed

C13_Witness ==
    /\ pc = "complete"
    /\ \E d \in 0..(NDEV - 1) :
          /\ SizeAt(d) = 0
          /\ NameAt(d) \in DOMAIN header.blob_buffer
          /\ d \notin DOMAIN device_outs
          /\ \E i \in DOMAIN submitted : submitted[i].dev_id = d
    /\ \E d \in DOMAIN device_outs :
          \E i \in DOMAIN submitted : submitted[i].dev_id = d /\ result[i] = "ok"

\* the device id the archive holds in block-info k of the extent at e
InfoOff(e, k) == e + ExtentSumOff + FieldCells + (k - 1) * InfoLen
DevIdAt(e, k) ==
    FromBytes(Read(archive, InfoOff(e, k) + FieldCells + SkipCells, FieldCells))
MaskAt(e, k) == FromBytes(Read(archive, InfoOff(e, k), FieldCells))
BlockCountAt(e) == FromBytes(Read(archive, e + FieldCells + SkipCells, FieldCells))

\* the tasks of the current extent, and where the cursor has to be when only
\* they have consumed payload
OfCurrent == FromExtent(extent.start)
Owed ==
    IF OfCurrent = {} THEN extent.end
    ELSE submitted[CHOOSE i \in OfCurrent : \A j \in OfCurrent : j <= i].after

\* the block-infos of the current extent already processed
Processed == IF pc = "blockinfo" THEN 1..(bi - 1) ELSE DOMAIN extent.blockinfo

\* C14: no task carries device id 0 or comes from a block-info whose device
\* id is 0; the tasks of the current extent are exactly its processed
\* block-infos with a non-zero device id; and the cursor is where those
\* tasks left it, so the block-infos with device id 0 have consumed
\* nothing, whatever their mask and cluster index and whatever block count
\* the extent declares.
C14_SkipSentinel ==
    /\ \A i \in DOMAIN submitted :
          /\ submitted[i].dev_id # 0
          /\ DevIdAt(submitted[i].ext, submitted[i].slot) # 0
    /\ (pc \in {"blockinfo", "extent"} /\ extent # NoExtent) =>
          /\ { submitted[i].slot : i \in OfCurrent }
                = { k \in Processed : extent.blockinfo[k].dev_id # 0 }
          /\ fo = Owed

C14_Witness ==
    /\ pc = "complete"
    /\ AllOk
    /\ BlockCountAt(extent.start) > NBI
    /\ DevIdAt(extent.start, 1) = 0
    /\ MaskAt(extent.start, 1) = FULL_MASK
    /\ \E i \in OfCurrent :
          /\ submitted[i].slot = 2
          /\ submitted[i].before = extent.end

\* the workers between the acquire and the release of device d's lock, and
\* those between their seek and the end of their write
Inside(d) ==
    { w \in DOMAIN wk : /\ wk[w].st \in {"locked", "seeked"}
                        /\ submitted[wk[w].task].dev_id = d }
Seeked(d) ==
    { w \in DOMAIN wk : /\ wk[w].st = "seeked"
                        /\ submitted[wk[w].task].dev_id = d }

\* C15: on every device file at most one worker is inside the critical
\* section, that worker is the one the lock records, and between a task's
\* seek and its write the file's position is the task's offset.
C15_MutualExclusion ==
    \A d \in DOMAIN device_outs :
        /\ Cardinality(Inside(d)) <= 1
        /\ \A w \in Inside(d) : locks[d] = w
        /\ \A w \in Seeked(d) : device_outs[d].pos = submitted[wk[w].task].pos

\* two workers past their seeks on different devices at once, with a third
\* task of one of the devices, for another offset, kept waiting
C15_Witness ==
    \E v, w \in DOMAIN wk :
        /\ wk[v].st = "seeked"
        /\ wk[w].st = "seeked"
        /\ submitted[wk[v].task].dev_id # submitted[wk[w].task].dev_id
        /\ \E k \in DOMAIN queue :
              /\ submitted[queue[k]].dev_id = submitted[wk[v].task].dev_id
              /\ submitted[queue[k]].pos # submitted[wk[v].task].pos

\* the first task of the current extent
FirstOfCurrent == CHOOSE i \in OfCurrent : \A j \in OfCurrent : i <= j

\* the tasks lie along the stream in the order they were submitted: within
\* an extent in array order, each payload beginning where the one before
\* ended; the first payload of the current extent begins at the end of its
\* header; a later extent begins at or after the end of the payloads before
StreamChained ==
    /\ \A i \in DOMAIN submitted :
          i > 1 =>
             LET s == submitted[i - 1]
                 t == submitted[i]
             IN  IF s.ext = t.ext
                 THEN s.slot < t.slot /\ t.before = s.after
                 ELSE s.ext < t.ext /\ s.after <= t.ext /\ t.ext < t.before
    /\ (extent # NoExtent /\ OfCurrent # {}) =>
          submitted[FirstOfCurrent].before = extent.end

\* one step: a worker's step leaves the cursor alone; in the block-info
\* loop the cursor moves only by the payload of the task submitted for the
\* block-info in turn, and the loop goes through the array in order; an
\* extent header is parsed at the cursor the loop before left
StreamStep ==
    /\ wk' # wk => fo' = fo
    /\ fo' # fo => pc \in {"start", "blob", "configs", "extent", "blockinfo"}
    /\ (pc = "blockinfo" /\ wk' = wk) =>
          /\ IF bi < Len(extent.blockinfo)
             THEN pc' = "blockinfo" /\ bi' = bi + 1
             ELSE pc' = "extent"
          /\ IF extent.blockinfo[bi].dev_id = 0
             THEN fo' = fo /\ submitted' = submitted
             ELSE /\ Len(submitted') = Len(submitted) + 1
                  /\ submitted'[Len(submitted')].slot = bi
                  /\ submitted'[Len(submitted')].before = fo
                  /\ submitted'[Len(submitted')].after = fo'
    /\ (pc = "extent" /\ extent' # extent) => extent'.start = fo
    /\ (pc = "extent" /\ pc' = "blockinfo") => bi' = 1 /\ fo' = extent'.end

\* C16: only the reader moves the archive cursor; the block-infos of an
\* extent are processed in array order; the cursor after one block-info is
\* where the payload of the next begins; the cursor after the last
\* block-info of an extent is where the next extent header is parsed.
C16_StreamOrder == [] StreamChained /\ [][StreamStep]_vars

C16_Witness ==
    /\ pc = "complete"
    /\ Len(submitted) >= 3
    /\ \E i \in DOMAIN submitted :
          /\ i > 1
          /\ submitted[i].ext = submitted[i - 1].ext
          /\ submitted[i].before > submitted[i - 1].before
    /\ \E i \in DOMAIN submitted :
          /\ i > 1
          /\ submitted[i].ext = submitted[i - 1].after
          /\ submitted[i].after > submitted[i].before

\* one step leaves the bytes of every submitted task's data as they were
DataKept ==
    \A i \in DOMAIN submitted : DataOf(submitted[i])' = DataOf(submitted[i])

\* C17: the bytes of a submitted task's data never change after submission,
\* whatever the reader does with its buffer afterwards; a zero-mask task's
\* data is all zeros whenever it is looked at; and what a task writes is
\* what was submitted.
C17_NoAliasing ==
    /\ [] (\A i \in DOMAIN submitted :
              /\ submitted[i].mask = 0 => DataOf(submitted[i]) = Zeros(CLUSTER_SIZE)
              /\ (result[i] = "ok" /\ Alone(i)) => Landed(i))
    /\ [][DataKept]_vars

\* a full-mask task is still queued or running after the reader has read a
\* later cluster into the buffer the task's data was copied from
C17_Witness ==
    \E i \in DOMAIN submitted :
        /\ submitted[i].mask = FULL_MASK
        /\ result[i] = ""
        /\ cluster_buf # submitted[i].data
        /\ \E j \in DOMAIN submitted : j > i /\ submitted[j].mask = FULL_MASK

\* C18: every cluster handed to a write task is CLUSTER_SIZE cells long.
C18_ClusterSize ==
    \A i \in DOMAIN submitted : Len(DataOf(submitted[i])) = CLUSTER_SIZE

\* the same for the tasks whose payload the archive holds in full
ClusterSizeWhenWhole ==
    \A i \in DOMAIN submitted :
        submitted[i].after - submitted[i].before = MaskLen(submitted[i].mask)
            => Len(DataOf(submitted[i])) = CLUSTER_SIZE

\* C19: every task submitted targets a device with an open output file and
\* a lock; no task ends in an exception while the run goes on to complete;
\* and when the run is complete every cluster submitted is in its file
\* (where no other task has the same target).
C19_NoSilentDrop ==
    /\ \A i \in DOMAIN submitted :
          /\ submitted[i].dev_id \in DOMAIN device_outs
          /\ submitted[i].dev_id \in DOMAIN locks
    /\ pc = "complete" =>
          \A i \in DOMAIN submitted :
              /\ result[i] = "ok"
              /\ Alone(i) => Landed(i)

\* a run that is complete with a task that died of a KeyError
DroppedSilently ==
    /\ pc = "complete"
    /\ error = ""
    /\ \E i \in DOMAIN result : result[i] = "KeyError"

Done == pc \in {"complete", "failed"}

\* the blob loop is at the end of the file with the region's end ahead
BlobLoopStuck == pc = "blob" /\ fo < BlobEnd /\ Blob(archive, fo).pos = fo

\* C20: an iteration of the blob-table loop strictly advances the cursor,
\* and an iteration of the extent loop fails or strictly advances it, so
\* that every run comes to an end.
C20_LoopsAdvance ==
    /\ (pc = "blob" /\ fo < BlobEnd) => Blob(archive, fo).pos > fo
    /\ (pc = "extent" /\ fo < Total(archive)) =>
          LET x == VmaExtentFixed(archive, fo)
          IN  x.ok # "" \/ x.pos > fo

\* the extent loop alone
ExtentLoopAdvances ==
    (pc = "extent" /\ fo < Total(archive)) =>
        LET x == VmaExtentFixed(archive, fo)
        IN  x.ok # "" \/ x.pos > fo

\* what is left to do: for the reader the phases ahead and, inside a phase,
\* the descriptors, the cells of the archive and the block-infos ahead; for
\* every task the steps to its end
PhasesLeft ==
    CASE pc = "start" -> 7
      [] pc = "blob" -> 6
      [] pc = "configs" -> 5
      [] pc = "outputs" -> 4
      [] pc \in {"extent", "blockinfo"} -> 3
      [] pc = "shutdown" -> 2
      [] pc = "closing" -> 1
      [] OTHER -> 0
CellsLeft == Len(archive) + 2 * ExtentLen - fo
InPhaseLeft ==
    CASE pc = "outputs" -> NDEV - idx
      [] pc = "extent" -> CellsLeft * (NBI + 2)
      [] pc = "blockinfo" -> CellsLeft * (NBI + 2) + NBI + 2 - bi
      [] OTHER -> 0
TaskLeft(i) ==
    IF result[i] # "" THEN 0
    ELSE IF \E k \in DOMAIN queue : queue[k] = i THEN 4
    ELSE LET w == CHOOSE v \in DOMAIN wk : wk[v].task = i
         IN  CASE wk[w].st = "run" -> 3
               [] wk[w].st = "locked" -> 2
               [] OTHER -> 1
RECURSIVE TasksLeft(_)
TasksLeft(i) == IF i = 0 THEN 0 ELSE TaskLeft(i) + TasksLeft(i - 1)
Variant ==
    5 * (PhasesLeft * (Len(archive) + 2 * ExtentLen + 1) * (NBI + 2) + InPhaseLeft)
        + TasksLeft(Len(submitted))

\* outside the blob loop every step of the reader and of a worker takes the
\* run nearer to its end
RunsDown == [][pc # "blob" => (Variant' < Variant /\ Variant' >= 0)]_vars

=============================================================================
